---- MODULE Spec2Model ----
(***************************************************************************)
(* A model of the symbol-graph scan (src/src/symbol_graph.rs) and of the   *)
(* sandbox construction (src/src/sandbox.rs).                              *)
(*                                                                         *)
(* Four specifications share the module:                                   *)
(*   Spec         one scan_objects run: load_symbols, the inlined edges,   *)
(*                find_possible_exports, the object-file edges and         *)
(*                emit_shortest_api_usages;                                *)
(*   TargetSpec   ObjectIndex::add_target_symbols on one object file, one  *)
(*                relocation per step (FairTargetSpec adds fairness);      *)
(*   FileSpec     ApiUsageCollector::process_file on one path;             *)
(*   SandboxSpec  sandbox::from_config on one configuration/environment.   *)
(* Each specification holds the variables of the others at their idle      *)
(* values.                                                                 *)
(***************************************************************************)
EXTENDS Integers, Sequences, FiniteSets, TLC

VARIABLES
    \* ---- scan_objects ----
    pc,                     \* position of scan_objects
    checker,                \* the &Checker handed to the scan (immutable)
    bin_symbols,            \* obj.symbols() of the linked binary: symbol -> address
    symbol_debug_info,      \* BinInfo::symbol_debug_info
    symbol_addresses,       \* BinInfo::symbol_addresses
    symbol_has_no_apis,     \* BinInfo::symbol_has_no_apis (the no-API memo)
    new_api_usages,         \* ApiUsageCollector::new_api_usages
    outputs,                \* ApiUsageCollector::outputs
    inlined_done,           \* inlined_functions already processed
    edges_done,             \* object-file edges already processed
    last_edge,              \* what the last process_reference call did
    last_emit,              \* the groups the last emit_shortest_api_usages took
    \* ---- ObjectIndex::add_target_symbols ----
    obj,                    \* the parsed object file
    tpc,                    \* position of the resolution
    stack,                  \* call stack of add_target_symbols
    symbols_out,            \* the out-parameter symbols_out
    visited,                \* the out-parameter visited
    expanded,               \* per section: times its relocations were iterated
    \* ---- process_file ----
    filename,               \* the path handed to process_file
    archive_entries,        \* what archive.next_entry() yields, when opened
    file_state,             \* what process_file did
    \* ---- sandbox::from_config ----
    config,                 \* the SandboxConfig
    env,                    \* the process environment
    sandbox                 \* the result of from_config and the builder calls

scan_vars == <<pc, checker, bin_symbols, symbol_debug_info, symbol_addresses,
               symbol_has_no_apis, new_api_usages, outputs, inlined_done,
               edges_done, last_edge, last_emit>>
target_vars == <<obj, tpc, stack, symbols_out, visited, expanded>>
file_vars == <<filename, archive_entries, file_state>>
sandbox_vars == <<config, env, sandbox>>
vars == <<scan_vars, target_vars, file_vars, sandbox_vars>>

-----------------------------------------------------------------------------
(* Bounds of the model.                                                    *)

\* edges (inlined functions and relocation targets) processed by one scan
MaxEdges == 2

-----------------------------------------------------------------------------
(* Option values.                                                          *)

None == [some |-> FALSE]
Some(v) == [some |-> TRUE, val |-> v]

\* The elements of a finite set as a sequence, in some fixed order.
RECURSIVE SetToSeq(_)
SetToSeq(S) ==
    IF S = {} THEN <<>>
    ELSE LET x == CHOOSE x \in S : TRUE IN <<x>> \o SetToSeq(S \ {x})

\* All orders in which the elements of a finite set can be iterated.
RECURSIVE Orders(_)
Orders(S) ==
    IF S = {} THEN {<<>>}
    ELSE UNION {{<<x>> \o o : o \in Orders(S \ {x})} : x \in S}

Reverse(seq) == [i \in 1..Len(seq) |-> seq[Len(seq) + 1 - i]]

\* The iteration orders explored for the map of usage groups: one order and
\* its reverse, so that every two groups are met in both relative orders.
IterationOrders(S) == {SetToSeq(S), Reverse(SetToSeq(S))}

IsPrefix(p, s) == Len(p) <= Len(s) /\ \A i \in 1..Len(p) : p[i] = s[i]

-----------------------------------------------------------------------------
(* The inputs of a scan: symbols, names, the checker.                      *)

SymMain == "_ZN6my_pkg4main17h1a2b3c4d5e6f7a8bE"
SymHelper == "_ZN6my_pkg2fs6helperE"
SymConnectLong == "_ZN3std3net7connect17h0123456789abcdefE"
SymConnect == "_ZN3std3net7connectE"
SymFsRead == "_ZN3std2fs4readE"
SymLibFsOpen == "_ZN6my_lib2fs4openE"
SymLibFsClose == "_ZN6my_lib2fs5closeE"

Symbols == {SymMain, SymHelper, SymConnectLong, SymConnect, SymFsRead,
            SymLibFsOpen, SymLibFsClose}

\* Symbol::names(): the names in the mangled-name decomposition of a symbol.
SymbolNames(symbol) ==
    CASE symbol = SymMain -> << <<"my_pkg", "main">> >>
      [] symbol = SymHelper -> << <<"my_pkg", "fs", "helper">> >>
      [] symbol = SymConnectLong -> << <<"std", "net", "connect">> >>
      [] symbol = SymConnect -> << <<"std", "net", "connect">> >>
      [] symbol = SymFsRead -> << <<"std", "fs", "read">> >>
      [] symbol = SymLibFsOpen -> << <<"my_lib", "fs", "open">> >>
      [] symbol = SymLibFsClose -> << <<"my_lib", "fs", "close">> >>

\* NamesIterator over NonMangledIterator: the names in a debug display name.
DebugNames(debug_name) ==
    CASE debug_name = "my_pkg::main" -> << <<"my_pkg", "main">> >>
      [] debug_name = "my_pkg::fs::main" -> << <<"my_pkg", "fs", "main">> >>
      [] debug_name = "my_pkg::fs::helper" -> << <<"my_pkg", "fs", "helper">> >>
      [] debug_name = "std::net::connect" -> << <<"std", "net", "connect">> >>
      [] debug_name = "<std::fs::File as std::io::Read>::read" ->
            << <<"std", "fs", "File">>, <<"std", "io", "Read">> >>
      [] debug_name = "my_lib::fs::open" -> << <<"my_lib", "fs", "open">> >>
      [] debug_name = "my_lib::fs::close" -> << <<"my_lib", "fs", "close">> >>

\* Symbol::crate_name(): the first part of the symbol's first name.
SymbolCrateName(symbol) ==
    LET names == SymbolNames(symbol) IN
    IF names # <<>> /\ names[1] # <<>> THEN Some(names[1][1]) ELSE None

\* Symbol::module_name(): the second part of the symbol's first name.
SymbolModuleName(symbol) ==
    LET names == SymbolNames(symbol) IN
    IF names # <<>> /\ Len(names[1]) >= 2 THEN Some(names[1][2]) ELSE None

\* PackageId::crate_name(): the package name with '-' replaced by '_'.
PkgCrateName(pkg_id) ==
    CASE pkg_id = "my-lib" -> "my_lib"
      [] pkg_id = "my_pkg" -> "my_pkg"
      [] pkg_id = "std" -> "std"

Primary(pkg_id) == [kind |-> "Primary", pkg_id |-> pkg_id]
BuildScript(pkg_id) == [kind |-> "BuildScript", pkg_id |-> pkg_id]

\* CrateName::from(&CrateSel)
CrateNameFrom(crate_sel) ==
    IF crate_sel.kind = "Primary" THEN PkgCrateName(crate_sel.pkg_id)
    ELSE PkgCrateName(crate_sel.pkg_id) \o ".build"

FileMain == "/src/my_pkg/src/main.rs"
FileLib == "/src/my-lib/src/lib.rs"
FileStd == "/rustc/library/std/src/fs.rs"

SourceLocation(file, line) == [filename |-> file, line |-> line]

\* The crate index of the checker: source path -> crate selectors.
CrateIndex ==
    [f \in {FileMain, FileLib} |->
        IF f = FileMain THEN <<Primary("my_pkg")>>
        ELSE <<Primary("my-lib"), BuildScript("my-lib")>>]

\* The configurations a scan may run under: API -> the name prefixes it covers.
CheckerConfigs ==
    { [apis |-> [a \in {"fs", "net"} |->
                    IF a = "fs" THEN {<<"std", "fs">>, <<"my_pkg", "fs">>, <<"my_lib", "fs">>}
                    ELSE {<<"std", "net">>}],
       crates |-> CrateIndex],
      [apis |-> [a \in {"fs", "net", "process"} |->
                    IF a = "fs" THEN {<<"std", "fs">>, <<"std", "net", "connect">>}
                    ELSE IF a = "net" THEN {<<"std", "net">>}
                    ELSE {<<"std", "process">>}],
       crates |-> CrateIndex] }

\* Checker::apis_for_name_iterator
ApisForName(chk, parts) ==
    {a \in DOMAIN chk.apis : \E p \in chk.apis[a] : IsPrefix(p, parts)}

\* Checker::crate_names_from_source_path: Err for a path of no known crate
CrateNamesFromSourcePath(chk, path) ==
    IF path \in DOMAIN chk.crates THEN Some(chk.crates[path]) ELSE None

\* Checker::opt_crate_names_from_source_path
OptCrateNamesFromSourcePath(chk, path) ==
    IF path \in DOMAIN chk.crates THEN Some(chk.crates[path]) ELSE None

\* SymbolDebugInfo of the binaries a scan may read.
DebugInfo(name, file, line) == [name |-> name, source_location |-> SourceLocation(file, line)]

DebugInfoChoices ==
    { (SymMain :> DebugInfo(Some("my_pkg::main"), FileMain, 3))
        @@ (SymFsRead :> DebugInfo(Some("<std::fs::File as std::io::Read>::read"), FileLib, 7))
        @@ (SymLibFsOpen :> DebugInfo(None, FileLib, 10))
        @@ (SymLibFsClose :> DebugInfo(Some("my_lib::fs::close"), FileLib, 20)),
      (SymMain :> DebugInfo(Some("my_pkg::fs::main"), FileMain, 3))
        @@ (SymHelper :> DebugInfo(None, FileMain, 9))
        @@ (SymConnect :> DebugInfo(Some("std::net::connect"), FileStd, 5))
        @@ (SymLibFsOpen :> DebugInfo(Some("my_lib::fs::open"), FileLib, 10)) }

\* The symbol tables (symbol -> address) of the binaries a scan may read.
BinSymbolChoices ==
    { (SymMain :> 4096) @@ (SymHelper :> 4160) @@ (SymLibFsOpen :> 4224)
        @@ (SymConnectLong :> 4352) }

-----------------------------------------------------------------------------
(* The matcher bridge: BinInfo::names_and_apis_do.                         *)

Range(seq) == {seq[i] : i \in 1..Len(seq)}

\* One loop of names_and_apis_do: the callback invocations for the names of
\* one view, in iteration order (a name with an empty API set invokes nothing).
MatchCalls(chk, names, name_source) ==
    LET all == [i \in 1..Len(names) |->
                   [name |-> names[i], name_source |-> name_source,
                    apis |-> ApisForName(chk, names[i])]]
    IN SelectSeq(all, LAMBDA c : c.apis # {})

\* The callback invocations of the debug-name loop (lines 569-585).
DebugNameCalls(chk, sdi, symbol) ==
    IF symbol \in DOMAIN sdi /\ sdi[symbol].name.some
    THEN MatchCalls(chk, DebugNames(sdi[symbol].name.val),
                    [kind |-> "DebugName", name |-> sdi[symbol].name.val])
    ELSE <<>>

\* The callback invocations of the mangled-name loop (lines 586-597).
SymbolNameCalls(chk, symbol) ==
    MatchCalls(chk, SymbolNames(symbol), [kind |-> "Symbol", symbol |-> symbol])

\* A variant that marks the symbol whatever the loops found.
MemoAfterAlways(memo, symbol, calls) ==
    IF symbol \in DOMAIN memo
    THEN [memo EXCEPT ![symbol] = TRUE]
    ELSE memo

\* The memo after a call that went through both loops: set when got_apis is
\* false and the symbol has an entry (lines 598-605).
MemoAfter(memo, symbol, calls) ==
    IF calls = <<>> /\ symbol \in DOMAIN memo
    THEN [memo EXCEPT ![symbol] = TRUE]
    ELSE memo

\* A variant that drops the mark of a symbol when it meets it again.
NamesAndApisDoForgetful(chk, sdi, memo, symbol) ==
    IF symbol \in DOMAIN memo /\ memo[symbol]
    THEN [calls |-> <<>>, memo |-> [memo EXCEPT ![symbol] = FALSE], hit |-> TRUE]
    ELSE LET calls == DebugNameCalls(chk, sdi, symbol) \o SymbolNameCalls(chk, symbol)
         IN [calls |-> calls, memo |-> MemoAfter(memo, symbol, calls), hit |-> FALSE]

\* names_and_apis_do with a callback that does not fail: the callback
\* invocations it makes, in order, and the memo it leaves.
\* `hit` tells that the call returned at the memo test of lines 560-567.
NamesAndApisDo(chk, sdi, memo, symbol) ==
    IF symbol \in DOMAIN memo /\ memo[symbol]
    THEN [calls |-> <<>>, memo |-> memo, hit |-> TRUE]
    ELSE LET calls == DebugNameCalls(chk, sdi, symbol) \o SymbolNameCalls(chk, symbol)
         IN [calls |-> calls, memo |-> MemoAfter(memo, symbol, calls), hit |-> FALSE]

-----------------------------------------------------------------------------
(* Edge attribution: ApiUsageCollector::process_reference.                 *)

\* An ApiUsages record holding its single ApiUsage (lines 334-349).
ApiUsages(crate_sel, permission, location, from_symbol, call, target_symbol) ==
    [crate_sel |-> crate_sel,
     permission |-> permission,
     source_location |-> location,
     from |-> from_symbol,
     to |-> call.name,
     to_symbol |-> target_symbol,
     to_source |-> call.name_source]

\* ApiUsages::deduplication_key: the record without its to_symbol.
DeduplicationKey(u) ==
    [crate_sel |-> u.crate_sel,
     permission |-> u.permission,
     source_location |-> u.source_location,
     from |-> u.from,
     to |-> u.to,
     to_source |-> u.to_source.kind]

\* A variant that takes no reference for an intra-package one.
IsIntraPackageNever(crate_sel, name) == FALSE

\* The intra-package test of lines 322-327.
IsIntraPackage(crate_sel, name) ==
    name # <<>> /\ CrateNameFrom(crate_sel) = name[1]

\* A variant that skips no permission.
SkipsPermissionNever(from_apis, permission) == FALSE

\* Whether the loop of lines 330-354 skips a permission.
SkipsPermission(from_apis, permission) == permission \in from_apis

\* The records one callback invocation pushes, in push order (lines 318-355).
RECURSIVE CallbackRecords(_, _, _, _, _, _)
CallbackRecords(crate_names, from_apis, location, from_symbol, call, target_symbol) ==
    IF crate_names = <<>> THEN <<>>
    ELSE LET crate_sel == Head(crate_names)
             perms == SetToSeq({p \in call.apis : ~SkipsPermission(from_apis, p)})
             here == IF IsIntraPackage(crate_sel, call.name) THEN <<>>
                     ELSE [i \in 1..Len(perms) |->
                              ApiUsages(crate_sel, perms[i], location, from_symbol,
                                        call, target_symbol)]
         IN here \o CallbackRecords(Tail(crate_names), from_apis, location,
                                    from_symbol, call, target_symbol)

\* new_api_usages.entry(key).or_default().push(api_usage), for each record.
RECURSIVE PushAll(_, _)
PushAll(usages, records) ==
    IF records = <<>> THEN usages
    ELSE LET u == Head(records)
             k == DeduplicationKey(u)
             pushed == IF k \in DOMAIN usages
                       THEN [usages EXCEPT ![k] = Append(@, u)]
                       ELSE usages @@ (k :> <<u>>)
         IN PushAll(pushed, Tail(records))

\* Lazy::get of the holder behind lazy_location: whether it runs its closure,
\* which it does when it holds no value yet.
LazyForces(lazy) == ~lazy.some

\* A variant that looks the crate names up at every callback.
LazyCrateNamesIsNoneAlways(lazy_crate_names) == TRUE

\* lazy_crate_names.is_none() (line 313)
LazyCrateNamesIsNone(lazy_crate_names) == ~lazy_crate_names.some

\* The callbacks of the target symbol, one after the other (lines 308-357).
\* acc.lazy is the holder behind lazy_location, acc.lazy_crate_names the
\* Option of line 306; a failed lookup ends the edge with an error.
RECURSIVE RunCallbacks(_, _, _, _, _, _, _)
RunCallbacks(chk, calls, acc, location_result, from_apis, from_symbol, target_symbol) ==
    IF calls = <<>> \/ ~acc.ok THEN acc
    ELSE LET call == Head(calls)
             forces == LazyForces(acc.lazy)
             find_calls == acc.find_location_calls + (IF forces THEN 1 ELSE 0)
         IN IF forces /\ ~location_result.some
            THEN [acc EXCEPT !.ok = FALSE, !.find_location_calls = find_calls]
            ELSE
            LET location == IF forces THEN location_result.val ELSE acc.lazy.val
                looks_up == LazyCrateNamesIsNone(acc.lazy_crate_names)
                found == IF looks_up
                         THEN CrateNamesFromSourcePath(chk, location.filename)
                         ELSE acc.lazy_crate_names
                crate_calls == acc.crate_names_calls + (IF looks_up THEN 1 ELSE 0)
            IN IF ~found.some
               THEN [acc EXCEPT !.ok = FALSE, !.lazy = Some(location),
                                !.find_location_calls = find_calls,
                                !.crate_names_calls = crate_calls]
               ELSE
               LET records == CallbackRecords(found.val, from_apis, location,
                                              from_symbol, call, target_symbol)
               IN RunCallbacks(chk, Tail(calls),
                      [ok |-> TRUE,
                       lazy |-> Some(location),
                       lazy_crate_names |-> found,
                       find_location_calls |-> find_calls,
                       crate_names_calls |-> crate_calls,
                       added |-> acc.added \o records],
                      location_result, from_apis, from_symbol, target_symbol)

\* process_reference: lazy_in is the holder as the edge receives it,
\* location_result what forcing it yields (None: the lookup fails). When a
\* callback fails, the second names_and_apis_do returns before its memo
\* update (the `?` of lines 581 and 595).
ProcessReference(chk, sdi, memo, usages, from_symbol, target_symbol, lazy_in, location_result) ==
    LET from_r == NamesAndApisDo(chk, sdi, memo, from_symbol)
        from_apis == UNION {c.apis : c \in Range(from_r.calls)}
        to_r == NamesAndApisDo(chk, sdi, from_r.memo, target_symbol)
        acc == RunCallbacks(chk, to_r.calls,
                   [ok |-> TRUE, lazy |-> lazy_in, lazy_crate_names |-> None,
                    find_location_calls |-> 0, crate_names_calls |-> 0,
                    added |-> <<>>],
                   location_result, from_apis, from_symbol, target_symbol)
    IN [ok |-> acc.ok,
        memo |-> IF acc.ok THEN to_r.memo ELSE from_r.memo,
        usages |-> PushAll(usages, acc.added),
        from_apis |-> from_apis,
        calls |-> to_r.calls,
        added |-> acc.added,
        memo_hits |-> (IF from_r.hit THEN {from_symbol} ELSE {})
                        \cup (IF to_r.hit THEN {target_symbol} ELSE {}),
        location |-> acc.lazy,
        find_location_calls |-> acc.find_location_calls,
        crate_names_calls |-> acc.crate_names_calls]

-----------------------------------------------------------------------------
(* Shortest-representative emission and exported-API discovery.            *)

\* Symbol::len(): the byte count of the mangled form.
SymbolLen(symbol) == Len(symbol)

\* A variant that keeps the first record of a group.
MinByKeyFirst(records) == records[1]

\* Iterator::min_by_key over a non-empty Vec: the first of the elements with
\* the least key.
MinByKey(records) ==
    LET least == CHOOSE i \in 1..Len(records) :
                    /\ \A j \in 1..Len(records) :
                          SymbolLen(records[i].to_symbol) <= SymbolLen(records[j].to_symbol)
                    /\ \A j \in 1..(i - 1) :
                          SymbolLen(records[j].to_symbol) > SymbolLen(records[i].to_symbol)
    IN records[least]

\* emit_shortest_api_usages for the groups taken in iteration order `order`:
\* the records pushed to outputs.api_usages.
EmittedRecords(groups, order) ==
    [i \in 1..Len(order) |-> MinByKey(groups[order[i]])]

\* Whether find_possible_exports emits for a pair it has just inserted into
\* `found` (lines 403-405).
HasExpectedCrateName(symbol, pkg_id) ==
    SymbolCrateName(symbol) = Some(PkgCrateName(pkg_id))

\* A variant that takes every pair for a new one.
FoundInsertAlways(found, pair) == TRUE

\* HashSet::insert as line 399 uses it: whether the pair is new.
FoundInsert(found, pair) == pair \notin found

\* The loop over the crate selectors of one symbol (lines 390-414).
RECURSIVE ExportsOfSymbol(_, _, _, _)
ExportsOfSymbol(crate_sels, symbol, permission_name, acc) ==
    IF crate_sels = <<>> THEN acc
    ELSE LET crate_sel == Head(crate_sels)
             pair == <<crate_sel.pkg_id, permission_name>>
             next == IF crate_sel.kind # "Primary" \/ ~FoundInsert(acc.found, pair) THEN acc
                     ELSE [found |-> acc.found \cup {pair},
                           apis |-> IF HasExpectedCrateName(symbol, crate_sel.pkg_id)
                                    THEN Append(acc.apis,
                                                [pkg_id |-> crate_sel.pkg_id,
                                                 api |-> permission_name,
                                                 symbol |-> symbol])
                                    ELSE acc.apis]
         IN ExportsOfSymbol(Tail(crate_sels), symbol, permission_name, next)

\* The loop over symbol_debug_info, taken in iteration order `order`
\* (lines 382-415).
RECURSIVE PossibleExports(_, _, _, _)
PossibleExports(chk, sdi, order, acc) ==
    IF order = <<>> THEN acc
    ELSE LET symbol == Head(order)
             module_name == SymbolModuleName(symbol)
             crate_sels == OptCrateNamesFromSourcePath(chk, sdi[symbol].source_location.filename)
             next == IF ~module_name.some \/ module_name.val \notin DOMAIN chk.apis
                     THEN acc
                     ELSE ExportsOfSymbol(IF crate_sels.some THEN crate_sels.val ELSE <<>>,
                                          symbol, module_name.val, acc)
         IN PossibleExports(chk, sdi, Tail(order), next)

-----------------------------------------------------------------------------
(* scan_objects.                                                           *)

NoEdge == [valid |-> FALSE]
NoEmit == [valid |-> FALSE]
EmptyMap == [k \in {} |-> <<>>]

TargetIdle ==
    /\ obj = None
    /\ tpc = "idle"
    /\ stack = <<>>
    /\ symbols_out = <<>>
    /\ visited = {}
    /\ expanded = <<>>

FileIdle ==
    /\ filename = <<>>
    /\ archive_entries = <<>>
    /\ file_state = None

SandboxIdle ==
    /\ config = None
    /\ env = None
    /\ sandbox = None

\* The collector as scan_objects constructs it (lines 134-149).
Init ==
    /\ pc = "load_symbols"
    /\ checker \in CheckerConfigs
    /\ bin_symbols \in BinSymbolChoices
    /\ symbol_debug_info \in DebugInfoChoices
    /\ symbol_addresses = EmptyMap
    /\ symbol_has_no_apis = [s \in DOMAIN symbol_debug_info |-> FALSE]
    /\ new_api_usages = EmptyMap
    /\ outputs = [api_usages |-> <<>>, possible_exported_apis |-> <<>>]
    /\ inlined_done = 0
    /\ edges_done = 0
    /\ last_edge = NoEdge
    /\ last_emit = NoEmit
    /\ TargetIdle /\ FileIdle /\ SandboxIdle

\* collector.bin.load_symbols(&obj) (line 150, lines 517-525)
LoadSymbols ==
    /\ pc = "load_symbols"
    /\ symbol_addresses' = bin_symbols
    /\ pc' = "inlined"
    /\ UNCHANGED <<checker, bin_symbols, symbol_debug_info, symbol_has_no_apis,
                   new_api_usages, outputs, inlined_done, edges_done, last_edge,
                   last_emit>>
    /\ UNCHANGED <<target_vars, file_vars, sandbox_vars>>

\* The effect of one process_reference call on the collector; an Err ends
\* the scan (the `?` of lines 160 and 283).
Reference(from_symbol, target_symbol, lazy_in, location_result) ==
    LET r == ProcessReference(checker, symbol_debug_info, symbol_has_no_apis,
                              new_api_usages, from_symbol, target_symbol,
                              lazy_in, location_result)
    IN /\ symbol_has_no_apis' = r.memo
       /\ new_api_usages' = r.usages
       /\ last_edge' = [valid |-> TRUE, ok |-> r.ok,
                        from |-> from_symbol, to |-> target_symbol,
                        from_apis |-> r.from_apis, calls |-> r.calls,
                        added |-> r.added, memo_hits |-> r.memo_hits,
                        location |-> r.location,
                        find_location_calls |-> r.find_location_calls,
                        crate_names_calls |-> r.crate_names_calls]
       /\ pc' = IF r.ok THEN pc ELSE "failed"

\* The inlined_functions a binary's debug info may hold: from_symbol,
\* to_symbol and what f.location() yields (None: it fails).
InlinedFunctions ==
    { [from_symbol |-> SymMain, to_symbol |-> SymFsRead,
       location |-> Some(SourceLocation(FileMain, 4))],
      [from_symbol |-> SymMain, to_symbol |-> SymHelper,
       location |-> Some(SourceLocation(FileMain, 5))],
      [from_symbol |-> SymFsRead, to_symbol |-> SymConnectLong,
       location |-> Some(SourceLocation(FileMain, 6))],
      [from_symbol |-> SymLibFsClose, to_symbol |-> SymLibFsOpen,
       location |-> Some(SourceLocation(FileLib, 21))],
      [from_symbol |-> SymLibFsClose, to_symbol |-> SymFsRead,
       location |-> Some(SourceLocation(FileStd, 5))] }

\* One iteration of the loop over inlined_functions (lines 152-161).
ProcessInlinedReference ==
    /\ pc = "inlined"
    /\ inlined_done + edges_done < MaxEdges
    /\ \E f \in InlinedFunctions :
          Reference(f.from_symbol, f.to_symbol, None, f.location)
    /\ inlined_done' = inlined_done + 1
    /\ UNCHANGED <<checker, bin_symbols, symbol_debug_info, symbol_addresses,
                   outputs, edges_done, last_emit>>
    /\ UNCHANGED <<target_vars, file_vars, sandbox_vars>>

\* collector.find_possible_exports(checker), once the inlined functions are
\* through (line 165).
FindPossibleExports ==
    /\ pc = "inlined"
    /\ \E order \in Orders(DOMAIN symbol_debug_info) :
          outputs' = [outputs EXCEPT !.possible_exported_apis =
                         PossibleExports(checker, symbol_debug_info, order,
                                         [found |-> {}, apis |-> @]).apis]
    /\ pc' = "files"
    /\ UNCHANGED <<checker, bin_symbols, symbol_debug_info, symbol_addresses,
                   symbol_has_no_apis, new_api_usages, inlined_done, edges_done,
                   last_edge, last_emit>>
    /\ UNCHANGED <<target_vars, file_vars, sandbox_vars>>

\* What forcing the lazy location of a relocation in the section of
\* from_symbol may yield: the location found for the address, the fallback
\* location of the section's debug info, or an error (lines 268-273).
RelocationLocations(from_symbol) ==
    {Some(symbol_debug_info[from_symbol].source_location),
     Some(SourceLocation(FileLib, 42)), None}

\* The symbols the relocations of the object files resolve to.
RelocationTargets == {SymConnectLong, SymConnect, SymFsRead, SymLibFsOpen}

\* One target symbol of one relocation of an object file (lines 236-285): the
\* section's first symbol has an address in the binary and debug info. The
\* lazy location enters unforced (an earlier target of the same relocation may
\* have forced it already, which saves the lookup and changes nothing else).
ProcessObjectReference ==
    /\ pc = "files"
    /\ inlined_done + edges_done < MaxEdges
    /\ \E from_symbol \in DOMAIN symbol_addresses \cap DOMAIN symbol_debug_info,
          target_symbol \in RelocationTargets :
          \E location_result \in RelocationLocations(from_symbol) :
             Reference(from_symbol, target_symbol, None, location_result)
    /\ edges_done' = edges_done + 1
    /\ UNCHANGED <<checker, bin_symbols, symbol_debug_info, symbol_addresses,
                   outputs, inlined_done, last_emit>>
    /\ UNCHANGED <<target_vars, file_vars, sandbox_vars>>

\* collector.emit_shortest_api_usages(), once the object files are through
\* (line 172, lines 361-372).
EmitShortestApiUsages ==
    /\ pc = "files"
    /\ \E order \in IterationOrders(DOMAIN new_api_usages) :
          outputs' = [outputs EXCEPT !.api_usages =
                         @ \o EmittedRecords(new_api_usages, order)]
    /\ last_emit' = [valid |-> TRUE, groups |-> new_api_usages]
    /\ new_api_usages' = EmptyMap
    /\ pc' = "done"
    /\ UNCHANGED <<checker, bin_symbols, symbol_debug_info, symbol_addresses,
                   symbol_has_no_apis, inlined_done, edges_done, last_edge>>
    /\ UNCHANGED <<target_vars, file_vars, sandbox_vars>>

Next ==
    \/ LoadSymbols
    \/ ProcessInlinedReference
    \/ FindPossibleExports
    \/ ProcessObjectReference
    \/ EmitShortestApiUsages

Spec == Init /\ [][Next]_vars

-----------------------------------------------------------------------------
(* Target resolution: ObjectIndex::new, get_symbol_or_section and          *)
(* add_target_symbols, one add_target_symbols call per step.               *)

\* sections of an object file (section indices 1..NumSections)
NumSections == 3
\* relocations of section 2
MaxRelocs == 2

SymbolRef(i) == [kind |-> "Symbol", index |-> i]
SectionRef(i) == [kind |-> "Section", index |-> i]
AbsoluteRef == [kind |-> "Absolute"]

ObjSymbol(name, section, address, is_definition) ==
    [name |-> name, section_index |-> section, address |-> address,
     is_definition |-> is_definition]

\* The symbol table of the object files (symbol indices 1..Len): two symbols
\* defined in section 1, the section symbols of sections 2 and 3, an
\* undefined symbol, a symbol of section 3 that is a definition or not, a
\* nameless symbol without section and one of a section that does not exist.
ObjSymbols(local_is_definition) ==
    << ObjSymbol("_ZN6my_pkg4main4tailE", Some(1), 16, TRUE),
       ObjSymbol("_ZN6my_pkg4mainE", Some(1), 0, TRUE),
       ObjSymbol("", Some(2), 0, TRUE),
       ObjSymbol("", Some(3), 0, TRUE),
       ObjSymbol("_ZN3std7process4exitE", None, 0, FALSE),
       ObjSymbol("_ZN6my_pkg5localE", Some(3), 8, local_is_definition),
       ObjSymbol("", None, 0, FALSE),
       ObjSymbol("", Some(NumSections + 1), 0, TRUE) >>

\* The relocation targets of the anonymous-capable sections 2 and 3.
ForwardTargets == {SymbolRef(3), SymbolRef(4), SymbolRef(5)}

\* The relocation targets of section 1.
TopTargets ==
    ForwardTargets \cup {SymbolRef(6), SymbolRef(7), SymbolRef(8), SymbolRef(9),
                         SectionRef(2), AbsoluteRef}

SeqsUpTo(S, n) == UNION {[1..k -> S] : k \in 0..n}

\* The object files explored: section 1 holds one relocation, section 2 up
\* to MaxRelocs and section 3 at most one.
ObjectFiles ==
    { [symbols |-> ObjSymbols(d),
       relocations |-> [s \in 1..NumSections |->
                           IF s = 1 THEN r1 ELSE IF s = 2 THEN r2
                           ELSE IF s = 3 THEN r3 ELSE <<>>]] :
         d \in BOOLEAN, r1 \in [1..1 -> TopTargets],
         r2 \in SeqsUpTo(ForwardTargets, MaxRelocs),
         r3 \in SeqsUpTo(ForwardTargets, 1) }

\* ObjectIndex::new: section_infos, slot i + 1 for section index i.
RECURSIVE SectionInfos(_, _, _)
SectionInfos(symbols, i, infos) ==
    IF i > Len(symbols) THEN infos
    ELSE LET obj_symbol == symbols[i]
             slot == obj_symbol.section_index.val + 1
         IN IF obj_symbol.name = "" \/ ~obj_symbol.is_definition
               \/ ~obj_symbol.section_index.some
            THEN SectionInfos(symbols, i + 1, infos)
            ELSE IF ~infos[slot].some \/ obj_symbol.address < infos[slot].val.offset
                 THEN SectionInfos(symbols, i + 1,
                          [infos EXCEPT ![slot] =
                              Some([symbol |-> obj_symbol.name,
                                    offset |-> obj_symbol.address])])
                 ELSE SectionInfos(symbols, i + 1, infos)

ObjectIndexNew(o) ==
    SectionInfos(o.symbols, 1, [slot \in 1..(NumSections + 1) |-> None])

\* The section a relocation target is reduced to (lines 477-492), or how the
\* reduction ends otherwise.
TargetSection(o, target_in) ==
    IF target_in.kind = "Symbol"
    THEN IF target_in.index \notin 1..Len(o.symbols)
         THEN [kind |-> "Err", msg |-> "Invalid symbol index in object file"]
         ELSE LET symbol == o.symbols[target_in.index] IN
              IF symbol.name # ""
              THEN [kind |-> "Symbol", symbol |-> symbol.name]
              ELSE IF symbol.section_index.some
                   THEN [kind |-> "Section", section_index |-> symbol.section_index.val]
                   ELSE [kind |-> "Err",
                         msg |-> "Relocation target has empty name an no section index"]
    ELSE IF target_in.kind = "Section"
         THEN [kind |-> "Panic", msg |-> "not yet implemented"]
         ELSE [kind |-> "Err", msg |-> "Unsupported relocation kind"]

\* ObjectIndex::get_symbol_or_section
GetSymbolOrSection(o, target_in) ==
    LET reduced == TargetSection(o, target_in)
        section_infos == ObjectIndexNew(o)
    IN IF reduced.kind # "Section" THEN reduced
       ELSE IF reduced.section_index + 1 \notin 1..Len(section_infos)
            THEN [kind |-> "Err", msg |-> "Unnamed symbol has invalid section index"]
            ELSE IF section_infos[reduced.section_index + 1].some
                 THEN [kind |-> "Symbol",
                       symbol |-> section_infos[reduced.section_index + 1].val.symbol]
                 ELSE reduced

\* A variant that takes every section for a new one.
VisitedInsertAlways(seen, section_index) == TRUE

\* HashSet::insert as line 461 uses it: whether the section is new.
VisitedInsert(seen, section_index) == section_index \notin seen

\* The sections whose relocations process_object_file_bytes walks: those
\* with a first symbol (lines 236-241).
WalkedSections(o) ==
    {s \in 1..NumSections : ObjectIndexNew(o)[s + 1].some}

TargetInit ==
    /\ obj \in {Some(o) : o \in ObjectFiles}
    /\ tpc = "idle"
    /\ stack = <<>>
    /\ symbols_out = <<>>
    /\ visited = {}
    /\ expanded = [s \in 1..NumSections |-> 0]
    /\ pc = "idle" /\ checker = None /\ bin_symbols = None
    /\ symbol_debug_info = None /\ symbol_addresses = None
    /\ symbol_has_no_apis = None /\ new_api_usages = None /\ outputs = None
    /\ inlined_done = 0 /\ edges_done = 0 /\ last_edge = NoEdge
    /\ last_emit = NoEmit
    /\ FileIdle /\ SandboxIdle

\* A frame of add_target_symbols: the call of `rel`, or the loop of lines
\* 466-468 over the relocations of `section` standing before relocation `next`.
CallFrame(rel) == [at |-> "call", rel |-> rel]
LoopFrame(section, next) == [at |-> "loop", section |-> section, next |-> next]

Top == stack[Len(stack)]
Pop == SubSeq(stack, 1, Len(stack) - 1)

\* Lines 264-267: a top-level call for a relocation of a walked section,
\* with fresh symbols_out and visited.
StartResolve ==
    /\ tpc \in {"idle", "done"}
    /\ \E s \in WalkedSections(obj.val) :
          \E i \in 1..Len(obj.val.relocations[s]) :
             stack' = <<CallFrame(obj.val.relocations[s][i])>>
    /\ symbols_out' = <<>>
    /\ visited' = {}
    /\ expanded' = [s \in 1..NumSections |-> 0]
    /\ tpc' = "running"
    /\ UNCHANGED <<obj, scan_vars, file_vars, sandbox_vars>>

\* Lines 456-459: the target is a symbol; it is pushed and the call returns.
ResolveSymbol ==
    /\ tpc = "running" /\ stack # <<>> /\ Top.at = "call"
    /\ LET r == GetSymbolOrSection(obj.val, Top.rel) IN
          /\ r.kind = "Symbol"
          /\ symbols_out' = Append(symbols_out, r.symbol)
    /\ stack' = Pop
    /\ UNCHANGED <<obj, tpc, visited, expanded, scan_vars, file_vars, sandbox_vars>>

\* Lines 460-465: the target is a section not yet visited; the call goes on
\* to the loop over its relocations. section_by_index fails for a section
\* the file does not have.
EnterSection ==
    /\ tpc = "running" /\ stack # <<>> /\ Top.at = "call"
    /\ LET r == GetSymbolOrSection(obj.val, Top.rel) IN
          /\ r.kind = "Section"
          /\ VisitedInsert(visited, r.section_index)
          /\ visited' = visited \cup {r.section_index}
          /\ IF r.section_index \in 1..NumSections
             THEN /\ stack' = Append(Pop, LoopFrame(r.section_index, 1))
                  /\ expanded' = [expanded EXCEPT ![r.section_index] = @ + 1]
                  /\ tpc' = tpc
             ELSE /\ stack' = <<>>
                  /\ expanded' = expanded
                  /\ tpc' = "error"
    /\ UNCHANGED <<obj, symbols_out, scan_vars, file_vars, sandbox_vars>>

\* Lines 461-464: the section was visited before; the call returns.
SkipVisited ==
    /\ tpc = "running" /\ stack # <<>> /\ Top.at = "call"
    /\ LET r == GetSymbolOrSection(obj.val, Top.rel) IN
          /\ r.kind = "Section"
          /\ ~VisitedInsert(visited, r.section_index)
    /\ stack' = Pop
    /\ UNCHANGED <<obj, tpc, symbols_out, visited, expanded, scan_vars, file_vars,
                   sandbox_vars>>

\* Line 456: get_symbol_or_section fails; the error unwinds every call.
ResolveFails ==
    /\ tpc = "running" /\ stack # <<>> /\ Top.at = "call"
    /\ GetSymbolOrSection(obj.val, Top.rel).kind = "Err"
    /\ stack' = <<>>
    /\ tpc' = "error"
    /\ UNCHANGED <<obj, symbols_out, visited, expanded, scan_vars, file_vars,
                   sandbox_vars>>

\* Line 490: todo!() panics.
ResolvePanics ==
    /\ tpc = "running" /\ stack # <<>> /\ Top.at = "call"
    /\ GetSymbolOrSection(obj.val, Top.rel).kind = "Panic"
    /\ stack' = <<>>
    /\ tpc' = "panic"
    /\ UNCHANGED <<obj, symbols_out, visited, expanded, scan_vars, file_vars,
                   sandbox_vars>>

\* Lines 466-468: the loop calls add_target_symbols for its next relocation.
NextRelocation ==
    /\ tpc = "running" /\ stack # <<>> /\ Top.at = "loop"
    /\ Top.next <= Len(obj.val.relocations[Top.section])
    /\ stack' = Append(Append(Pop, LoopFrame(Top.section, Top.next + 1)),
                       CallFrame(obj.val.relocations[Top.section][Top.next]))
    /\ UNCHANGED <<obj, tpc, symbols_out, visited, expanded, scan_vars, file_vars,
                   sandbox_vars>>

\* Lines 469-471: the loop is through; the call returns.
ReturnFromSection ==
    /\ tpc = "running" /\ stack # <<>> /\ Top.at = "loop"
    /\ Top.next > Len(obj.val.relocations[Top.section])
    /\ stack' = Pop
    /\ UNCHANGED <<obj, tpc, symbols_out, visited, expanded, scan_vars, file_vars,
                   sandbox_vars>>

\* The top-level call has returned Ok.
FinishResolve ==
    /\ tpc = "running" /\ stack = <<>>
    /\ tpc' = "done"
    /\ UNCHANGED <<obj, stack, symbols_out, visited, expanded, scan_vars, file_vars,
                   sandbox_vars>>

TargetNext ==
    \/ StartResolve
    \/ ResolveSymbol
    \/ EnterSection
    \/ SkipVisited
    \/ ResolveFails
    \/ ResolvePanics
    \/ NextRelocation
    \/ ReturnFromSection
    \/ FinishResolve

TargetSpec == TargetInit /\ [][TargetNext]_vars

\* add_target_symbols runs to its end once called: no step of it waits for
\* anything.
FairTargetSpec == TargetSpec /\ WF_vars(TargetNext)

-----------------------------------------------------------------------------
(* File kinds: Filetype::from_filename and process_file. A path is a       *)
(* sequence of characters.                                                 *)

\* characters of a generated path
MaxPathLen == 4
\* entries of an archive
MaxEntries == 2

PathChars == {"a", ".", "/"}

LibfooRlib == <<"l", "i", "b", "f", "o", "o", ".", "r", "l", "i", "b">>
LibfooA == <<"l", "i", "b", "f", "o", "o", ".", "a">>
FooO == <<"f", "o", "o", ".", "o">>
DirRlibFooO == <<"d", ".", "r", "l", "i", "b", "/", "f", "o", "o", ".", "o">>
DotRlib == <<".", "r", "l", "i", "b">>
FooRlibSlash == <<"f", "o", "o", ".", "r", "l", "i", "b", "/">>
FooTarRlib == <<"f", "o", "o", ".", "a", ".", "r", "l", "i", "b">>

\* The paths explored.
Paths ==
    SeqsUpTo(PathChars, MaxPathLen)
        \cup {LibfooRlib, LibfooA, FooO, DirRlibFooO, DotRlib, FooRlibSlash, FooTarRlib}

\* Path::components without the root: the pieces between separators, empty
\* pieces and "." pieces left out.
RECURSIVE Components(_, _, _)
Components(path, piece, done) ==
    LET closed == IF piece = <<>> \/ piece = <<".">> THEN done ELSE Append(done, piece)
    IN IF path = <<>> THEN closed
       ELSE IF Head(path) = "/" THEN Components(Tail(path), <<>>, closed)
       ELSE Components(Tail(path), Append(piece, Head(path)), done)

\* Path::file_name: the last component, unless it is "..".
FileName(path) ==
    LET comps == Components(path, <<>>, <<>>) IN
    IF comps = <<>> \/ comps[Len(comps)] = <<".", ".">>
    THEN None
    ELSE Some(comps[Len(comps)])

\* Path::extension: the part of the file name after its last ".", when
\* there is one that is not the first character of the file name.
Extension(path) ==
    LET file == FileName(path) IN
    IF ~file.some THEN None
    ELSE LET dots == {i \in 1..Len(file.val) : file.val[i] = "."} IN
         IF dots = {} THEN None
         ELSE LET last == CHOOSE i \in dots : \A j \in dots : j <= i IN
              IF last = 1 THEN None
              ELSE Some(SubSeq(file.val, last + 1, Len(file.val)))

\* Filetype::from_filename
FiletypeFromFilename(path) ==
    LET extension == Extension(path) IN
    IF ~extension.some THEN "Other"
    ELSE IF extension.val = <<"r", "l", "i", "b">> \/ extension.val = <<".", "a">>
         THEN "Archive"
         ELSE "Other"

\* What archive.next_entry() may yield for an entry: a readable entry or an
\* error (skipped by line 202).
EntryKinds == {"entry", "unreadable"}

FileInit ==
    /\ filename \in Paths
    /\ archive_entries \in SeqsUpTo(EntryKinds, MaxEntries)
    /\ file_state = None
    /\ pc = "idle" /\ checker = None /\ bin_symbols = None
    /\ symbol_debug_info = None /\ symbol_addresses = None
    /\ symbol_has_no_apis = None /\ new_api_usages = None /\ outputs = None
    /\ inlined_done = 0 /\ edges_done = 0 /\ last_edge = NoEdge
    /\ last_emit = NoEmit
    /\ TargetIdle /\ SandboxIdle

\* The objects handed to process_object_file_bytes for an archive: one per
\* readable entry, tagged in_archive (lines 201-210).
ArchiveObjects(path, entries) ==
    LET readable == SelectSeq([i \in 1..Len(entries) |-> [kind |-> entries[i], index |-> i]],
                              LAMBDA e : e.kind = "entry")
    IN [i \in 1..Len(readable) |->
           [tag |-> "in_archive", path |-> path, entry |-> readable[i].index]]

\* process_file, Filetype::Archive arm (lines 199-211)
ProcessFileArchive ==
    /\ file_state = None
    /\ FiletypeFromFilename(filename) = "Archive"
    /\ file_state' = Some([handled_as |-> "archive",
                           raw_reads |-> 0,
                           entries_iterated |-> Len(archive_entries),
                           objects |-> ArchiveObjects(filename, archive_entries)])
    /\ UNCHANGED <<filename, archive_entries, scan_vars, target_vars, sandbox_vars>>

\* process_file, Filetype::Other arm (lines 212-218)
ProcessFileOther ==
    /\ file_state = None
    /\ FiletypeFromFilename(filename) = "Other"
    /\ file_state' = Some([handled_as |-> "object",
                           raw_reads |-> 1,
                           entries_iterated |-> 0,
                           objects |-> <<[tag |-> "non_archive", path |-> filename]>>])
    /\ UNCHANGED <<filename, archive_entries, scan_vars, target_vars, sandbox_vars>>

FileNext ==
    \/ ProcessFileArchive
    \/ ProcessFileOther

FileSpec == FileInit /\ [][FileNext]_vars

-----------------------------------------------------------------------------
(* The sandbox: sandbox::from_config, as the builder calls it makes.       *)

\* paths in allow_read
MaxAllowRead == 2
\* arguments in extra_args
MaxExtraArgs == 1

SandboxKinds == {"Disabled", "Inherit", "Bubblewrap"}
AllowReadPaths == {"/data", "/h/.cargo", "/h/.cargo/registry"}
ExtraArgs == {"--die-with-parent", "--unshare-net"}
HomeValues == {None, Some("/h"), Some("/root")}
PathValues == {None, Some("/usr/bin")}

RoBind(dir) == [op |-> "ro_bind", dir |-> dir]
WritableBind(dir) == [op |-> "writable_bind", dir |-> dir]
Tmpfs(dir) == [op |-> "tmpfs", dir |-> dir]
SetEnv(var, value) == [op |-> "set_env", var |-> var, value |-> value]
Arg(arg) == [op |-> "arg", arg |-> arg]

\* Sandbox::pass_env (lines 30-34)
PassEnv(environment, env_var_name) ==
    IF environment[env_var_name].some
    THEN <<SetEnv(env_var_name, environment[env_var_name].val)>>
    ELSE <<>>

\* A variant that binds all of ~/.cargo.
DefaultReadOnlyBindsWholeCargo(home) ==
    <<RoBind("/usr"), RoBind("/lib"), RoBind("/lib64"), RoBind("/bin"),
      RoBind("/etc/alternatives"),
      RoBind(home \o "/.cargo"),
      RoBind(home \o "/.rustup")>>

\* The read-only binds of lines 58-68.
DefaultReadOnlyBinds(home) ==
    <<RoBind("/usr"), RoBind("/lib"), RoBind("/lib64"), RoBind("/bin"),
      RoBind("/etc/alternatives"),
      RoBind(home \o "/.cargo/bin"),
      RoBind(home \o "/.cargo/git"),
      RoBind(home \o "/.cargo/registry"),
      RoBind(home \o "/.rustup")>>

\* The tmpfs mounts of lines 69-72.
DefaultTmpfs == <<Tmpfs("/var"), Tmpfs("/tmp"), Tmpfs("/run"), Tmpfs("/usr/share")>>

\* A variant that short-circuits for Disabled alone.
ShortCircuitsDisabledOnly(kind) == kind = "Disabled"

\* The first arm of the match of lines 48-51.
ShortCircuits(kind) == kind \in {"Disabled", "Inherit"}

SandboxInit ==
    /\ config \in {Some([kind |-> k, allow_read |-> a, extra_args |-> x]) :
                      k \in SandboxKinds,
                      a \in SeqsUpTo(AllowReadPaths, MaxAllowRead),
                      x \in SeqsUpTo(ExtraArgs, MaxExtraArgs)}
    /\ env \in {Some([HOME |-> h, PATH |-> p]) : h \in HomeValues, p \in PathValues}
    /\ sandbox = None
    /\ pc = "idle" /\ checker = None /\ bin_symbols = None
    /\ symbol_debug_info = None /\ symbol_addresses = None
    /\ symbol_has_no_apis = None /\ new_api_usages = None /\ outputs = None
    /\ inlined_done = 0 /\ edges_done = 0 /\ last_edge = NoEdge
    /\ last_emit = NoEmit
    /\ TargetIdle /\ FileIdle

\* from_config, kinds Disabled and Inherit (line 49)
FromConfigNoSandbox ==
    /\ sandbox = None
    /\ ShortCircuits(config.val.kind)
    /\ sandbox' = Some([result |-> "Ok(None)", constructed |-> FALSE, ops |-> <<>>])
    /\ UNCHANGED <<config, env, scan_vars, target_vars, file_vars>>

\* from_config, kind Bubblewrap (lines 50-79): the builder is constructed,
\* the allow_read binds are made, then HOME is looked up; without HOME the
\* function returns the error and drops the builder.
FromConfigBubblewrap ==
    /\ sandbox = None
    /\ ~ShortCircuits(config.val.kind)
    /\ LET allow == [i \in 1..Len(config.val.allow_read) |->
                        RoBind(config.val.allow_read[i])]
           home == env.val.HOME
           args == [i \in 1..Len(config.val.extra_args) |-> Arg(config.val.extra_args[i])]
       IN sandbox' =
            IF ~home.some
            THEN Some([result |-> "Err", constructed |-> TRUE, ops |-> allow])
            ELSE Some([result |-> "Ok(Some)", constructed |-> TRUE,
                       ops |-> allow \o DefaultReadOnlyBinds(home.val) \o DefaultTmpfs
                                 \o <<SetEnv("USER", "user")>>
                                 \o PassEnv(env.val, "PATH") \o PassEnv(env.val, "HOME")
                                 \o args])
    /\ UNCHANGED <<config, env, scan_vars, target_vars, file_vars>>

SandboxNext ==
    \/ FromConfigNoSandbox
    \/ FromConfigBubblewrap

SandboxSpec == SandboxInit /\ [][SandboxNext]_vars

-----------------------------------------------------------------------------
(* Properties of the scan, checked under Spec.                             *)

\* The callback invocations the bridge makes for a symbol it has not marked.
BridgeCalls(symbol) ==
    DebugNameCalls(checker, symbol_debug_info, symbol) \o SymbolNameCalls(checker, symbol)

\* The union of the API sets the bridge yields for a symbol.
BridgeApis(symbol) == UNION {c.apis : c \in Range(BridgeCalls(symbol))}

\* The APIs for which the last edge added a usage record.
RecordedApis == {u.permission : u \in Range(last_edge.added)}

EdgeCompleted == last_edge.valid /\ last_edge.ok

\* The crate selectors of the location the last edge materialized.
EdgeCrateSelectors ==
    IF last_edge.location.some
       /\ last_edge.location.val.filename \in DOMAIN checker.crates
    THEN Range(checker.crates[last_edge.location.val.filename])
    ELSE {}

NameStartsWithCrate(name, crate_sel) ==
    name # <<>> /\ name[1] = CrateNameFrom(crate_sel)

\* C1 as stated: the APIs an edge (S, T) records are exactly A_T \ A_S.
C1_ExactDifference ==
    EdgeCompleted =>
        RecordedApis = BridgeApis(last_edge.to) \ BridgeApis(last_edge.from)

\* C1, amended: the APIs an edge (S, T) that process_reference completes
\* records are exactly the APIs of A_T \ A_S that the bridge yields for a
\* name of T whose first part differs from the crate name of at least one
\* crate selector of the edge's source location.
C1_DifferenceOutsidePackage ==
    EdgeCompleted =>
        RecordedApis =
            {p \in BridgeApis(last_edge.to) \ BridgeApis(last_edge.from) :
                \E c \in Range(BridgeCalls(last_edge.to)), crate_sel \in EdgeCrateSelectors :
                    p \in c.apis /\ ~NameStartsWithCrate(c.name, crate_sel)}

\* An edge whose caller holds one of the target's two APIs, and records the other.
C1_Witness ==
    /\ EdgeCompleted
    /\ RecordedApis # {}
    /\ BridgeApis(last_edge.from) \cap BridgeApis(last_edge.to) # {}
    /\ RecordedApis = BridgeApis(last_edge.to) \ BridgeApis(last_edge.from)

\* C2: after the edges and emit_shortest_api_usages, no record of
\* outputs.api_usages has a target name whose first part is the crate name of
\* the record's crate_sel.
C2_NoIntraPackageUsage ==
    pc = "done" =>
        \A i \in 1..Len(outputs.api_usages) :
            ~NameStartsWithCrate(outputs.api_usages[i].to, outputs.api_usages[i].crate_sel)

\* A finished scan with output whose last edge met a target name that starts
\* with the crate name of one of the edge's crate selectors.
C2_Witness ==
    /\ pc = "done"
    /\ outputs.api_usages # <<>>
    /\ EdgeCompleted
    /\ \E c \in Range(last_edge.calls), crate_sel \in EdgeCrateSelectors :
          NameStartsWithCrate(c.name, crate_sel)

\* The records of outputs.api_usages with deduplication key k.
EmittedOfKey(k) ==
    {i \in 1..Len(outputs.api_usages) : DeduplicationKey(outputs.api_usages[i]) = k}

\* C3: after emit_shortest_api_usages, each deduplication key that was in
\* new_api_usages has exactly one record in outputs.api_usages, a record of its
\* group whose to_symbol is no longer than that of any record of the group,
\* and new_api_usages is empty.
C3_ShortestRepresentative ==
    pc = "done" =>
        /\ last_emit.valid
        /\ new_api_usages = EmptyMap
        /\ \A k \in DOMAIN last_emit.groups :
              /\ Cardinality(EmittedOfKey(k)) = 1
              /\ \A i \in EmittedOfKey(k) :
                    /\ outputs.api_usages[i] \in Range(last_emit.groups[k])
                    /\ \A r \in Range(last_emit.groups[k]) :
                          Len(outputs.api_usages[i].to_symbol) <= Len(r.to_symbol)

\* An emission from a group whose first record has the longer to_symbol.
C3_Witness ==
    /\ pc = "done"
    /\ \E k \in DOMAIN last_emit.groups :
          /\ Len(last_emit.groups[k]) >= 2
          /\ Len(last_emit.groups[k][1].to_symbol) > Len(last_emit.groups[k][2].to_symbol)

\* The names of both views of a symbol.
AllNames(symbol) ==
    Range(SymbolNames(symbol))
        \cup (IF symbol \in DOMAIN symbol_debug_info /\ symbol_debug_info[symbol].name.some
              THEN Range(DebugNames(symbol_debug_info[symbol].name.val))
              ELSE {})

\* C4: whenever the no-API memo marks a symbol, the checker yields no API for
\* any name of its debug display name or of its mangled-name decomposition.
C4_MemoSound ==
    \A symbol \in DOMAIN symbol_has_no_apis :
        symbol_has_no_apis[symbol] =>
            \A name \in AllNames(symbol) : ApisForName(checker, name) = {}

\* A marked symbol that has a debug display name, while another symbol with
\* an entry has APIs and stays unmarked after an edge touched it.
C4_Witness ==
    /\ \E symbol \in DOMAIN symbol_has_no_apis :
          /\ symbol_has_no_apis[symbol]
          /\ symbol_debug_info[symbol].name.some
    /\ EdgeCompleted
    /\ \E symbol \in DOMAIN symbol_has_no_apis \cap {last_edge.from, last_edge.to} :
          /\ ~symbol_has_no_apis[symbol]
          /\ BridgeApis(symbol) # {}

\* C6: no two entries of outputs.possible_exported_apis have the same
\* (package_id, API).
C6_ExportsUnique ==
    \A i, j \in 1..Len(outputs.possible_exported_apis) :
        i # j =>
            <<outputs.possible_exported_apis[i].pkg_id, outputs.possible_exported_apis[i].api>>
                # <<outputs.possible_exported_apis[j].pkg_id, outputs.possible_exported_apis[j].api>>

\* The symbols find_possible_exports could report for a pair.
ExportCandidates(pkg_id, api) ==
    {symbol \in DOMAIN symbol_debug_info :
        /\ SymbolModuleName(symbol) = Some(api)
        /\ symbol_debug_info[symbol].source_location.filename \in DOMAIN checker.crates
        /\ Primary(pkg_id) \in Range(checker.crates[symbol_debug_info[symbol].source_location.filename])
        /\ SymbolCrateName(symbol) = Some(PkgCrateName(pkg_id))}

\* find_possible_exports has reported a pair that two symbols map to.
C6_Witness ==
    /\ pc \in {"files", "done"}
    /\ \E i \in 1..Len(outputs.possible_exported_apis) :
          Cardinality(ExportCandidates(outputs.possible_exported_apis[i].pkg_id,
                                       outputs.possible_exported_apis[i].api)) >= 2

\* C10: a step of the scan removes no entry of the no-API memo and leaves
\* every marked entry marked.
C10_MemoMonotone ==
    [][\A symbol \in DOMAIN symbol_has_no_apis :
          /\ symbol \in DOMAIN symbol_has_no_apis'
          /\ symbol_has_no_apis[symbol] => symbol_has_no_apis'[symbol]]_vars

\* An edge met a symbol that was marked before, and the mark is still there.
C10_Witness ==
    /\ EdgeCompleted
    /\ last_edge.memo_hits # {}
    /\ \A symbol \in last_edge.memo_hits : symbol_has_no_apis[symbol]

\* What find_possible_exports reports when symbol_debug_info is iterated in
\* the given order.
ExportsInOrder(order) ==
    PossibleExports(checker, symbol_debug_info, order, [found |-> {}, apis |-> <<>>]).apis

\* C11: the ScanOutputs of a finished scan are those of every other run on the
\* same inputs: the same possible_exported_apis whatever the order in which
\* symbol_debug_info is iterated, the same api_usages whatever the order in
\* which the usage groups are iterated, and no group holds two different
\* records that are both of least to_symbol length.
C11_OutputsIndependentOfOrder ==
    pc = "done" =>
        /\ \A order \in Orders(DOMAIN symbol_debug_info) :
              outputs.possible_exported_apis = ExportsInOrder(order)
        /\ \A order \in IterationOrders(DOMAIN last_emit.groups) :
              outputs.api_usages = EmittedRecords(last_emit.groups, order)
        /\ \A k \in DOMAIN last_emit.groups :
              \A r \in Range(last_emit.groups[k]) :
                 SymbolLen(r.to_symbol) = SymbolLen(MinByKey(last_emit.groups[k]).to_symbol)
                    => r = MinByKey(last_emit.groups[k])

\* Whether a names_and_apis_do call on the symbol would now return at the
\* memo test, without consulting the checker.
ReturnsAtMemoTest(symbol) ==
    NamesAndApisDo(checker, symbol_debug_info, symbol_has_no_apis, symbol).hit

\* C12: after an edge that process_reference completes, each of its two
\* symbols for which names_and_apis_do invoked no callback is marked in the
\* no-API memo, so that a later names_and_apis_do on it returns at the memo
\* test; this for symbols with and without a debug-info entry.
C12_NoCallbackMarks ==
    EdgeCompleted =>
        /\ last_edge.from_apis = {} => ReturnsAtMemoTest(last_edge.from)
        /\ last_edge.calls = <<>> => ReturnsAtMemoTest(last_edge.to)

\* C14: for every edge process_reference has processed, whether it completed
\* or failed, find_location and crate_names_from_source_path ran at most once
\* each, and neither ran when the bridge invoked no callback for the edge's
\* target symbol.
C14_LazyLookups ==
    last_edge.valid =>
        /\ last_edge.find_location_calls <= 1
        /\ last_edge.crate_names_calls <= 1
        /\ last_edge.calls = <<>> =>
              /\ last_edge.find_location_calls = 0
              /\ last_edge.crate_names_calls = 0

\* A completed edge whose target made the bridge invoke the callback twice,
\* with one lookup of each kind.
C14_Witness ==
    /\ EdgeCompleted
    /\ Len(last_edge.calls) >= 2
    /\ last_edge.find_location_calls = 1
    /\ last_edge.crate_names_calls = 1

\* The packages that have a primary crate selector in the crate index.
PrimaryPackages ==
    {crate_sel.pkg_id :
        crate_sel \in {c \in UNION {Range(checker.crates[f]) : f \in DOMAIN checker.crates} :
                          c.kind = "Primary"}}

\* C15: once find_possible_exports has run, every (package P, configured
\* API) for which symbol_debug_info holds a symbol whose module name is the
\* API name, whose location is attributed to the primary crate selector of P
\* and whose crate name is P's crate name has an entry in
\* outputs.possible_exported_apis, in whatever order the symbols were iterated.
C15_QualifyingExportEmitted ==
    pc \in {"files", "done"} =>
        \A pkg_id \in PrimaryPackages, api \in DOMAIN checker.apis :
            ExportCandidates(pkg_id, api) # {} =>
                \E i \in 1..Len(outputs.possible_exported_apis) :
                    /\ outputs.possible_exported_apis[i].pkg_id = pkg_id
                    /\ outputs.possible_exported_apis[i].api = api

-----------------------------------------------------------------------------
(* Properties of target resolution, checked under FairTargetSpec.          *)

TotalRelocations(o) ==
    LET RECURSIVE Sum(_)
        Sum(s) == IF s = 0 THEN 0 ELSE Len(o.relocations[s]) + Sum(s - 1)
    IN Sum(NumSections)

ResolveEnded == tpc \in {"done", "error", "panic"}

\* The sections without a first symbol.
AnonymousSections(o) ==
    {s \in 1..NumSections : ~ObjectIndexNew(o)[s + 1].some}

\* Section s has a relocation that is reduced to section t.
ForwardsTo(o, s, t) ==
    \E i \in 1..Len(o.relocations[s]) :
        GetSymbolOrSection(o, o.relocations[s][i]) = [kind |-> "Section", section_index |-> t]

\* C5: a top-level add_target_symbols call ends, whatever cycles the
\* anonymous sections form; it iterates the relocations of each section at
\* most once and symbols_out stays within the number of relocations of the file.
C5_ForwardingTerminates ==
    /\ [](\A s \in 1..NumSections : expanded[s] <= 1)
    /\ [](Len(symbols_out) <= TotalRelocations(obj.val))
    /\ (tpc = "running") ~> ResolveEnded

\* A call that returned Ok after walking two anonymous sections that
\* reference each other.
C5_Witness ==
    /\ tpc = "done"
    /\ \E s, t \in AnonymousSections(obj.val) :
          /\ s # t
          /\ ForwardsTo(obj.val, s, t) /\ ForwardsTo(obj.val, t, s)
          /\ {s, t} \subseteq visited
          /\ expanded[s] = 1 /\ expanded[t] = 1

\* What the reduction of an empty-named symbol of section s yields: the
\* section's first symbol if it has one, otherwise the section itself.
ReducedAsSection(o, s) ==
    IF ObjectIndexNew(o)[s + 1].some
    THEN [kind |-> "Symbol", symbol |-> ObjectIndexNew(o)[s + 1].val.symbol]
    ELSE [kind |-> "Section", section_index |-> s]

\* C13: a call of add_target_symbols whose relocation names a section
\* directly reduces the target as it reduces an empty-named symbol of that
\* section (to the section's first symbol, or to the section, whose
\* relocations it then walks), and the resolution never aborts.
C13_SectionTargetReduced ==
    /\ tpc # "panic"
    /\ (tpc = "running" /\ stack # <<>> /\ Top.at = "call" /\ Top.rel.kind = "Section")
          => GetSymbolOrSection(obj.val, Top.rel) = ReducedAsSection(obj.val, Top.rel.index)

-----------------------------------------------------------------------------
(* Properties of process_file, checked under FileSpec.                     *)

\* C8: process_file handles a path as an archive exactly when its extension
\* is rlib or a, and reads every other path once as a raw object file.
C8_ArchiveIffRlibOrA ==
    file_state.some =>
        IF Extension(filename) \in {Some(<<"r", "l", "i", "b">>), Some(<<"a">>)}
        THEN file_state.val.handled_as = "archive"
        ELSE file_state.val.handled_as = "object" /\ file_state.val.raw_reads = 1

-----------------------------------------------------------------------------
(* Properties of from_config, checked under SandboxSpec.                   *)

Ops == Range(sandbox.val.ops)
BindsOf(dir) == {o \in Ops : o.op \in {"ro_bind", "writable_bind"} /\ o.dir = dir}
BubblewrapWithHome ==
    sandbox.some /\ config.val.kind = "Bubblewrap" /\ env.val.HOME.some
WholeCargo == env.val.HOME.val \o "/.cargo"

DefaultPolicyApplied ==
    /\ \A dir \in Range(config.val.allow_read) : RoBind(dir) \in Ops
    /\ \A dir \in {"/var", "/tmp", "/run", "/usr/share"} : Tmpfs(dir) \in Ops
    /\ SetEnv("USER", "user") \in Ops

\* C7 as stated: for Bubblewrap with HOME set, from_config binds every
\* allow_read path read-only, mounts the four tmpfs, sets USER=user and makes
\* no bind of exactly $HOME/.cargo.
C7_NoCargoBind ==
    BubblewrapWithHome => DefaultPolicyApplied /\ BindsOf(WholeCargo) = {}

\* C7, amended: for Bubblewrap with HOME set, from_config binds every
\* allow_read path read-only, mounts the four tmpfs, sets USER=user, makes no
\* writable bind of $HOME/.cargo, and binds $HOME/.cargo read-only only when
\* allow_read lists that very path.
C7_NoCargoBindUnlessAllowed ==
    BubblewrapWithHome =>
        /\ DefaultPolicyApplied
        /\ WritableBind(WholeCargo) \notin Ops
        /\ BindsOf(WholeCargo) # {} => WholeCargo \in Range(config.val.allow_read)

\* A sandbox built with HOME=/h, an allow_read path below /h/.cargo and
\* extra arguments, without a bind of /h/.cargo.
C7_Witness ==
    /\ BubblewrapWithHome
    /\ env.val.HOME = Some("/h")
    /\ config.val.allow_read = <<"/data", "/h/.cargo/registry">>
    /\ config.val.extra_args # <<>>
    /\ BindsOf("/h/.cargo") = {}
    /\ RoBind("/h/.cargo/bin") \in Ops

\* C9: from_config with kind Disabled or Inherit returns Ok(None) without
\* constructing a backend or calling the builder, whatever allow_read,
\* extra_args and HOME are; a backend is constructed for Bubblewrap only.
C9_ShortCircuit ==
    sandbox.some =>
        /\ config.val.kind \in {"Disabled", "Inherit"} =>
              sandbox.val = [result |-> "Ok(None)", constructed |-> FALSE, ops |-> <<>>]
        /\ sandbox.val.constructed => config.val.kind = "Bubblewrap"

\* from_config has returned for kind Inherit with HOME unset and a
\* non-empty allow_read.
C9_Witness ==
    /\ sandbox.some
    /\ config.val.kind = "Inherit"
    /\ ~env.val.HOME.some
    /\ config.val.allow_read # <<>>
    /\ config.val.extra_args # <<>>

====
